---- MODULE Spec2Model ----
\* Pocket Notes (src/App.js): the Group/Note store kept in React state, the
\* two save effects that write it to localStorage, the startup load, the
\* selection and the derived view.
\*
\* A JavaScript string is modelled as a sequence of one-character strings,
\* so that trim, split, toLowerCase, JSON.stringify and JSON.parse are
\* computed character by character as the engine computes them.
EXTENDS Naturals, Sequences, FiniteSets, TLC

\* ---------------------------------------------------------------- bounds

\* most groups / notes ever held by the collections
MaxGroups == 2
MaxNotes == 2
\* the wall clock reads 0 .. MaxClock milliseconds
MaxClock == 1
\* most page loads (the first one and the reloads)
MaxMounts == 2
\* the colour circles of the palette that are clicked
MaxColors == 1

\* what the user types into the group-name input: nothing, a blank, a name,
\* the name in the other letter case, the name between blanks, and a second
\* name of two words
NameInputs ==
  { <<>>, <<" ">>, <<"a">>, <<"A">>, <<" ", "a", " ">>, <<"a", " ", "b">> }

\* what the user types into the note textarea: nothing, a blank, and a text
\* that begins with a blank and holds a quote
TextInputs == { <<>>, <<" ">>, <<" ", "\"">> }

\* ------------------------------------------------------ JavaScript values

\* null: distinct from every string, whose elements are single characters
null == <<"null">>

\* the truthiness test of `x ? a : b` and `!x` for a string or null
Truthy(v) == v # null /\ v # <<>>

Range(s) == {s[i] : i \in 1..Len(s)}

IsSpace(c) == c \in {" ", "\n", "\t"}

\* the lower-case mapping of a character; the sharp s is lower case already
toLowerChar(c) ==
  CASE c = "A" -> "a" [] c = "B" -> "b" [] c = "S" -> "s" [] OTHER -> c

\* the upper-case mapping of a character that has a one-character upper case
toUpperChar(c) ==
  CASE c = "a" -> "A" [] c = "b" -> "B" [] c = "s" -> "S" [] OTHER -> c

\* the upper case of a character: the sharp s has none of its own and maps
\* to two characters
upperOf(c) == IF c = "ß" THEN <<"S", "S">> ELSE <<toUpperChar(c)>>

toLowerCase(s) == [i \in 1..Len(s) |-> toLowerChar(s[i])]

RECURSIVE toUpperCase(_)
toUpperCase(s) ==
  IF s = <<>> THEN <<>> ELSE upperOf(Head(s)) \o toUpperCase(Tail(s))

RECURSIVE trimStart(_)
trimStart(s) ==
  IF s = <<>> THEN s
  ELSE IF IsSpace(Head(s)) THEN trimStart(Tail(s)) ELSE s

RECURSIVE trimEnd(_)
trimEnd(s) ==
  IF s = <<>> THEN s
  ELSE IF IsSpace(s[Len(s)]) THEN trimEnd(SubSeq(s, 1, Len(s) - 1)) ELSE s

trim(s) == trimEnd(trimStart(s))

\* s.split(/\s+/): cut at every maximal run of whitespace
RECURSIVE splitFrom(_, _)
splitFrom(s, cur) ==
  IF s = <<>> THEN <<cur>>
  ELSE IF IsSpace(Head(s)) THEN <<cur>> \o splitFrom(trimStart(s), <<>>)
  ELSE splitFrom(Tail(s), Append(cur, Head(s)))

split(s) == splitFrom(s, <<>>)

\* w.charAt(0)
charAt0(w) == IF w = <<>> THEN <<>> ELSE <<w[1]>>

\* n.toString() for a non-negative integer
RECURSIVE toString(_)
toString(n) ==
  LET digit == <<"0", "1", "2", "3", "4", "5", "6", "7", "8", "9">>[(n % 10) + 1]
  IN IF n < 10 THEN <<digit>> ELSE Append(toString(n \div 10), digit)

\* -------------------------------------------------------------- constants

GROUP_COLORS ==
  << <<"#", "B", "3", "8", "B", "F", "A">>,
     <<"#", "F", "F", "7", "9", "F", "2">>,
     <<"#", "4", "3", "E", "6", "F", "C">>,
     <<"#", "F", "1", "9", "5", "7", "6">>,
     <<"#", "0", "0", "4", "7", "F", "F">>,
     <<"#", "6", "6", "9", "1", "F", "F">> >>

\* ---------------------------------------------------------------- helpers

getInitials(name) ==
  IF ~Truthy(name) THEN <<>>
  ELSE LET words == split(trim(name))
       IN IF Len(words) = 1 THEN toUpperCase(charAt0(words[1]))
          ELSE toUpperCase(charAt0(words[1]) \o charAt0(words[2]))

\* The clock counts milliseconds from the epoch and the labels are rendered in
\* UTC; the clock of the model stays within January 1970.
formatDate(dateObj) ==
  toString((dateObj \div 86400000) + 1)
    \o <<" ", "J", "a", "n", " ", "1", "9", "7", "0">>

formatTime(dateObj) ==
  LET h24 == (dateObj \div 3600000) % 24
      m == (dateObj \div 60000) % 60
      h12 == IF h24 % 12 = 0 THEN 12 ELSE h24 % 12
      mm == IF m < 10 THEN <<"0">> \o toString(m) ELSE toString(m)
      period == IF h24 < 12 THEN <<"A", "M">> ELSE <<"P", "M">>
  IN toString(h12) \o <<":">> \o mm \o <<" ">> \o period

\* ------------------------------------------------------------------- JSON

\* escapeChar without the escapes: every character is copied as it is
escapeCharNone(c) == <<c>>

\* JSON.stringify of a string: quoted, with " \ and the control characters
\* escaped
escapeChar(c) ==
  CASE c = "\"" -> <<"\\", "\"">>
    [] c = "\\" -> <<"\\", "\\">>
    [] c = "\n" -> <<"\\", "n">>
    [] c = "\t" -> <<"\\", "t">>
    [] OTHER -> <<c>>

RECURSIVE escape(_)
escape(s) == IF s = <<>> THEN <<>> ELSE escapeChar(Head(s)) \o escape(Tail(s))

quote(s) == <<"\"">> \o escape(s) \o <<"\"">>

\* JSON.stringify of a member value: a string or null
stringifyValue(v) == IF v = null THEN <<"n", "u", "l", "l">> ELSE quote(v)

\* the member names, in the order the object literals list them
GroupKeys == <<"id", "name", "color", "initials">>
NoteKeys == <<"id", "groupId", "content", "date", "time">>

\* the characters of a member name
keyChars(k) ==
  CASE k = "id" -> <<"i", "d">>
    [] k = "name" -> <<"n", "a", "m", "e">>
    [] k = "color" -> <<"c", "o", "l", "o", "r">>
    [] k = "initials" -> <<"i", "n", "i", "t", "i", "a", "l", "s">>
    [] k = "groupId" -> <<"g", "r", "o", "u", "p", "I", "d">>
    [] k = "content" -> <<"c", "o", "n", "t", "e", "n", "t">>
    [] k = "date" -> <<"d", "a", "t", "e">>
    [] k = "time" -> <<"t", "i", "m", "e">>

\* the member name spelled by the characters cs ("" when it is none of them)
keyNamed(cs) ==
  LET ks == {k \in Range(GroupKeys) \cup Range(NoteKeys) : keyChars(k) = cs}
  IN IF ks = {} THEN "" ELSE CHOOSE k \in ks : TRUE

RECURSIVE stringifyMembers(_, _)
stringifyMembers(obj, keys) ==
  IF keys = <<>> THEN <<>>
  ELSE quote(keyChars(Head(keys))) \o <<":">> \o stringifyValue(obj[Head(keys)])
       \o (IF Len(keys) > 1 THEN <<",">> ELSE <<>>)
       \o stringifyMembers(obj, Tail(keys))

stringifyObject(obj, keys) == <<"{">> \o stringifyMembers(obj, keys) \o <<"}">>

RECURSIVE stringifyItems(_, _)
stringifyItems(items, keys) ==
  IF items = <<>> THEN <<>>
  ELSE stringifyObject(Head(items), keys)
       \o (IF Len(items) > 1 THEN <<",">> ELSE <<>>)
       \o stringifyItems(Tail(items), keys)

\* stringify of the newest entry alone
stringifyLast(items, keys) ==
  <<"[">>
    \o stringifyItems(IF items = <<>> THEN <<>> ELSE <<items[Len(items)]>>, keys)
    \o <<"]">>

\* JSON.stringify(collection): an array of objects with the members `keys`
stringify(items, keys) == <<"[">> \o stringifyItems(items, keys) \o <<"]">>

\* JSON.parse, for the texts the slots hold: an array of objects whose
\* members are strings or null.  A parse step yields [ok, val, next]: the
\* value read and the position after it, or ok = FALSE for a SyntaxError.
SyntaxError == [ok |-> FALSE, val |-> <<>>, next |-> 0]

Parsed(v, n) == [ok |-> TRUE, val |-> v, next |-> n]

At(t, i) == IF i <= Len(t) THEN t[i] ELSE ""

\* the characters of a string literal, from position i just after the
\* opening quote to the closing quote
RECURSIVE parseChars(_, _, _)
parseChars(t, i, acc) ==
  IF i > Len(t) THEN SyntaxError
  ELSE IF t[i] = "\"" THEN Parsed(acc, i + 1)
  ELSE IF t[i] = "\\" THEN
    (CASE At(t, i + 1) = "\"" -> parseChars(t, i + 2, Append(acc, "\""))
       [] At(t, i + 1) = "\\" -> parseChars(t, i + 2, Append(acc, "\\"))
       [] At(t, i + 1) = "n" -> parseChars(t, i + 2, Append(acc, "\n"))
       [] At(t, i + 1) = "t" -> parseChars(t, i + 2, Append(acc, "\t"))
       [] OTHER -> SyntaxError)
  ELSE IF t[i] \in {"\n", "\t"} THEN SyntaxError
  ELSE parseChars(t, i + 1, Append(acc, t[i]))

parseString(t, i) ==
  IF At(t, i) = "\"" THEN parseChars(t, i + 1, <<>>) ELSE SyntaxError

parseValue(t, i) ==
  IF At(t, i) = "\"" THEN parseString(t, i)
  ELSE IF SubSeq(t, i, i + 3) = <<"n", "u", "l", "l">> /\ i + 3 <= Len(t)
  THEN Parsed(null, i + 4)
  ELSE SyntaxError

\* the members of an object from position i (after "{" or ","): obj is the
\* object read so far; a repeated member name keeps the last value
RECURSIVE parseMembers(_, _, _)
parseMembers(t, i, obj) ==
  LET k == parseString(t, i)
      v == parseValue(t, k.next + 1)
      o == [n \in (DOMAIN obj) \cup {keyNamed(k.val)} |->
              IF n = keyNamed(k.val) THEN v.val ELSE obj[n]]
  IN IF ~k.ok \/ At(t, k.next) # ":" \/ ~v.ok THEN SyntaxError
     ELSE IF At(t, v.next) = "," THEN parseMembers(t, v.next + 1, o)
     ELSE IF At(t, v.next) = "}" THEN Parsed(o, v.next + 1)
     ELSE SyntaxError

parseObject(t, i) ==
  IF At(t, i) # "{" THEN SyntaxError
  ELSE IF At(t, i + 1) = "}" THEN Parsed(<<>>, i + 2)
  ELSE parseMembers(t, i + 1, <<>>)

RECURSIVE parseItems(_, _, _)
parseItems(t, i, items) ==
  LET o == parseObject(t, i)
  IN IF ~o.ok THEN SyntaxError
     ELSE IF At(t, o.next) = "," THEN parseItems(t, o.next + 1, Append(items, o.val))
     ELSE IF At(t, o.next) = "]" THEN Parsed(Append(items, o.val), o.next + 1)
     ELSE SyntaxError

parseArray(t, i) ==
  IF At(t, i) # "[" THEN SyntaxError
  ELSE IF At(t, i + 1) = "]" THEN Parsed(<<>>, i + 2)
  ELSE parseItems(t, i + 1, <<>>)

\* JSON.parse(text): the array, or a SyntaxError when the text is not one
\* array with nothing after it
parse(text) ==
  LET a == parseArray(text, 1)
  IN IF a.ok /\ a.next = Len(text) + 1 THEN a ELSE SyntaxError

\* ------------------------------------------------------------------ state

VARIABLES
  phase,            \* "unloaded": no page; "running": App mounted; "crashed"
  storage,          \* localStorage: slot name -> text, or null when absent
  groups,           \* useState: the Group collection
  notes,            \* useState: the Note collection
  selectedGroupId,  \* useState: the selected group's id, or null
  isModalOpen,      \* useState
  isMobile,         \* useState
  groupName,        \* useState: the pending group name
  selectedColor,    \* useState: the pending colour
  noteText,         \* useState: the pending note text
  effects,          \* the save effects of the last commit that have not run yet
  now,              \* the wall clock, in milliseconds
  alertShown,       \* the last step called alert()
  outcome,          \* history: how the last step ended, if a store operation
  mounts,           \* history: page loads so far
  writes,           \* history: slot name -> calls of localStorage.setItem
  commits,          \* history: collection -> calls of setGroups / setNotes
  selectedIndex,    \* history: position of the group item clicked last, or 0
  owner             \* history: for each note, the position of the group
                    \* item that was selected when the note was added

vars ==
  <<phase, storage, groups, notes, selectedGroupId, isModalOpen, isMobile,
    groupName, selectedColor, noteText, effects, now, alertShown, outcome,
    mounts, writes, commits, selectedIndex, owner>>

Slots == {"pocketGroups", "pocketNotes"}

\* no page is loaded: the React state does not exist
NoApp ==
  /\ groups' = <<>>
  /\ notes' = <<>>
  /\ selectedGroupId' = null
  /\ isModalOpen' = FALSE
  /\ isMobile' = FALSE
  /\ groupName' = <<>>
  /\ selectedColor' = GROUP_COLORS[1]
  /\ noteText' = <<>>
  /\ effects' = <<>>
  /\ selectedIndex' = 0

\* the step is no store operation
NoOutcome == outcome' = "none" /\ alertShown' = FALSE

\* an empty store, before the page is first loaded
Init ==
  /\ phase = "unloaded"
  /\ storage = [k \in Slots |-> null]
  /\ groups = <<>>
  /\ notes = <<>>
  /\ selectedGroupId = null
  /\ isModalOpen = FALSE
  /\ isMobile = FALSE
  /\ groupName = <<>>
  /\ selectedColor = GROUP_COLORS[1]
  /\ noteText = <<>>
  /\ effects = <<>>
  /\ now = 0
  /\ alertShown = FALSE
  /\ outcome = "none"
  /\ mounts = 0
  /\ writes = [k \in Slots |-> 0]
  /\ commits = [c \in {"groups", "notes"} |-> 0]
  /\ selectedIndex = 0
  /\ owner = <<>>

\* ---------------------------------------------------------- startup load

\* the lazy initializer of a collection: saved ? JSON.parse(saved) : []
loadSlot(saved) == IF Truthy(saved) THEN parse(saved) ELSE Parsed(<<>>, 0)

\* dueEffects without the dependency arrays: every effect runs after every
\* commit
dueEffectsAll(changed) == <<"groups", "notes">>

\* dueEffects with the dependency arrays swapped: an effect runs when the
\* other collection was replaced
dueEffectsSwapped(changed) ==
  SelectSeq(<<"groups", "notes">>, LAMBDA e : e \notin changed)

\* The save effects due after a commit, in the order they are declared:
\* those whose dependency array names a state that was replaced (after the
\* first render, both).
dueEffects(changed) ==
  SelectSeq(<<"groups", "notes">>, LAMBDA e : e \in changed)

\* The page loads: App renders for the first time.  The initializers read
\* the two slots; a SyntaxError of JSON.parse is not caught, so nothing is
\* mounted.  After the first commit both save effects are due, in the order
\* they are declared.
Mount ==
  /\ phase = "unloaded"
  /\ mounts < MaxMounts
  /\ mounts' = mounts + 1
  /\ LET g == loadSlot(storage["pocketGroups"])
         n == loadSlot(storage["pocketNotes"])
     IN /\ IF g.ok /\ n.ok
           THEN /\ phase' = "running"
                /\ groups' = g.val
                /\ notes' = n.val
                /\ selectedGroupId' = null
                /\ isModalOpen' = FALSE
                /\ \E narrow \in BOOLEAN : isMobile' = narrow
                /\ groupName' = <<>>
                /\ selectedColor' = GROUP_COLORS[1]
                /\ noteText' = <<>>
                /\ effects' = dueEffects({"groups", "notes"})
                /\ selectedIndex' = 0
           ELSE /\ phase' = "crashed"
                /\ NoApp
        \* the history of the notes that were not saved is dropped
        /\ owner' = IF n.ok /\ Len(n.val) <= Len(owner)
                    THEN SubSeq(owner, 1, Len(n.val))
                    ELSE owner
  /\ NoOutcome
  /\ UNCHANGED <<storage, now, writes, commits>>

\* The page is closed or reloaded: the React state is gone and the save
\* effects that are still due never run, localStorage stays.
Reload ==
  /\ phase \in {"running", "crashed"}
  /\ mounts < MaxMounts
  /\ phase' = "unloaded"
  /\ NoApp
  /\ NoOutcome
  /\ UNCHANGED <<storage, now, mounts, writes, commits, owner>>

\* ----------------------------------------------------------- save effects

\* setItem with the key of the first effect copied into the second
setItemWrongKey(key, text) ==
  /\ storage' = [storage EXCEPT !["pocketGroups"] = text]
  /\ writes' = [writes EXCEPT !["pocketGroups"] = @ + 1]

\* localStorage.setItem(key, text)
setItem(key, text) ==
  /\ storage' = [storage EXCEPT ![key] = text]
  /\ writes' = [writes EXCEPT ![key] = @ + 1]

\* useEffect(..., [groups])
SaveGroupsEffect ==
  /\ phase = "running"
  /\ effects # <<>> /\ Head(effects) = "groups"
  /\ setItem("pocketGroups", stringify(groups, GroupKeys))
  /\ effects' = Tail(effects)
  /\ NoOutcome
  /\ UNCHANGED <<phase, groups, notes, selectedGroupId, isModalOpen, isMobile,
                 groupName, selectedColor, noteText, now, mounts, commits,
                 selectedIndex, owner>>

\* useEffect(..., [notes])
SaveNotesEffect ==
  /\ phase = "running"
  /\ effects # <<>> /\ Head(effects) = "notes"
  /\ setItem("pocketNotes", stringify(notes, NoteKeys))
  /\ effects' = Tail(effects)
  /\ NoOutcome
  /\ UNCHANGED <<phase, groups, notes, selectedGroupId, isModalOpen, isMobile,
                 groupName, selectedColor, noteText, now, mounts, commits,
                 selectedIndex, owner>>

\* ---------------------------------------------------------------- handlers

\* React runs the effects of a commit before it processes the next update,
\* so an event is handled with no save effect pending.
Idle == phase = "running" /\ effects = <<>>

\* The sidebar, which holds the group items and the "+" button, is rendered
\* with display: none on a narrow window while a group is selected.
sidebarVisible == ~(isMobile /\ Truthy(selectedGroupId))

\* onChange of the group-name input, which the open modal holds:
\* setGroupName(e.target.value)
setGroupName(name) ==
  /\ Idle
  /\ isModalOpen
  /\ name # groupName
  /\ groupName' = name
  /\ NoOutcome
  /\ UNCHANGED <<phase, storage, groups, notes, selectedGroupId, isModalOpen,
                 isMobile, selectedColor, noteText, effects, now, mounts,
                 writes, commits, selectedIndex, owner>>

\* onClick of a colour circle of the open modal: setSelectedColor(color)
setSelectedColor(color) ==
  /\ Idle
  /\ isModalOpen
  /\ selectedColor' = color
  /\ NoOutcome
  /\ UNCHANGED <<phase, storage, groups, notes, selectedGroupId, isModalOpen,
                 isMobile, groupName, noteText, effects, now, mounts, writes,
                 commits, selectedIndex, owner>>

\* onChange of the textarea, which the notes view holds while a group is
\* selected: setNoteText(e.target.value)
setNoteText(text) ==
  /\ Idle
  /\ Truthy(selectedGroupId)
  /\ text # noteText
  /\ noteText' = text
  /\ NoOutcome
  /\ UNCHANGED <<phase, storage, groups, notes, selectedGroupId, isModalOpen,
                 isMobile, groupName, selectedColor, effects, now, mounts,
                 writes, commits, selectedIndex, owner>>

\* isBlank without the trim: !text
isBlankNoTrim(text) == ~Truthy(text)

\* !text.trim(): the text is empty or whitespace only
isBlank(text) == ~Truthy(trim(text))

\* isDuplicate without toLowerCase: an exact comparison of the names
isDuplicateExact(name) ==
  \E i \in 1..Len(groups) : groups[i].name = trim(name)

\* the duplicate check of handleCreateGroup
isDuplicate(name) ==
  \E i \in 1..Len(groups) :
    toLowerCase(groups[i].name) = toLowerCase(trim(name))

\* the object literal of handleCreateGroup
newGroup(name, color, t) ==
  [id |-> toString(t),
   name |-> trim(name),
   color |-> color,
   initials |-> getInitials(name)]

\* appended with the operands swapped: [item, ...items]
prepended(items, item) == <<item>> \o items

\* [...items, item]
appended(items, item) == Append(items, item)

\* handleCreateGroup returns at once for a blank name: the form stays as it
\* is
rejectEmptyName ==
  /\ outcome' = "emptyName"
  /\ alertShown' = FALSE
  /\ UNCHANGED <<groups, isModalOpen, groupName, selectedColor, effects,
                 commits>>

\* rejectDuplicate without the return: the handler alerts and goes on
rejectDuplicateFallsThrough ==
  /\ Len(groups) < MaxGroups
  /\ groups' = appended(groups, newGroup(groupName, selectedColor, now))
  /\ isModalOpen' = FALSE
  /\ groupName' = <<>>
  /\ selectedColor' = GROUP_COLORS[1]
  /\ effects' = dueEffects({"groups"})
  /\ commits' = [commits EXCEPT !["groups"] = @ + 1]
  /\ outcome' = "duplicate"
  /\ alertShown' = TRUE

\* handleCreateGroup alerts and returns for a duplicate name: the form stays
\* as it is
rejectDuplicate ==
  /\ outcome' = "duplicate"
  /\ alertShown' = TRUE
  /\ UNCHANGED <<groups, isModalOpen, groupName, selectedColor, effects,
                 commits>>

\* commitGroup without setSelectedColor(GROUP_COLORS[0]): the picked colour
\* stays pending
commitGroupKeepsColor ==
  /\ Len(groups) < MaxGroups
  /\ groups' = appended(groups, newGroup(groupName, selectedColor, now))
  /\ isModalOpen' = FALSE
  /\ groupName' = <<>>
  /\ selectedColor' = selectedColor
  /\ effects' = dueEffects({"groups"})
  /\ commits' = [commits EXCEPT !["groups"] = @ + 1]
  /\ outcome' = "created"
  /\ alertShown' = FALSE

\* handleCreateGroup appends the new group and resets the form
commitGroup ==
  /\ Len(groups) < MaxGroups
  /\ groups' = appended(groups, newGroup(groupName, selectedColor, now))
  /\ isModalOpen' = FALSE
  /\ groupName' = <<>>
  /\ selectedColor' = GROUP_COLORS[1]
  /\ effects' = dueEffects({"groups"})
  /\ commits' = [commits EXCEPT !["groups"] = @ + 1]
  /\ outcome' = "created"
  /\ alertShown' = FALSE

\* createGroup(name, color) of the store: onClick of the Create button of
\* the open modal, with the pending name and the pending colour
handleCreateGroup ==
  /\ Idle
  /\ isModalOpen
  /\ IF isBlank(groupName) THEN rejectEmptyName
     ELSE IF isDuplicate(groupName) THEN rejectDuplicate
     ELSE commitGroup
  /\ UNCHANGED <<phase, storage, notes, selectedGroupId, isMobile, noteText,
                 now, mounts, writes, selectedIndex, owner>>

\* newNote without the tag: the selection is not copied into the note
newNoteUntagged(content, dateObj, t) ==
  [id |-> toString(t),
   groupId |-> null,
   content |-> content,
   date |-> formatDate(dateObj),
   time |-> formatTime(dateObj)]

\* the object literal of handleAddNote: the clock is read twice, by
\* new Date() and then by Date.now()
newNote(content, dateObj, t) ==
  [id |-> toString(t),
   groupId |-> selectedGroupId,
   content |-> content,
   date |-> formatDate(dateObj),
   time |-> formatTime(dateObj)]

\* rejectEmptyNote without the return: the blank text is appended as a note
rejectEmptyNoteFallsThrough ==
  /\ Len(notes) < MaxNotes
  /\ notes' = appended(notes, newNote(noteText, now, now))
  /\ noteText' = <<>>
  /\ effects' = dueEffects({"notes"})
  /\ commits' = [commits EXCEPT !["notes"] = @ + 1]
  /\ owner' = Append(owner, selectedIndex)
  /\ outcome' = "added"
  /\ alertShown' = FALSE
  /\ UNCHANGED now

\* handleAddNote returns at once for a blank text, which stays in the
\* textarea
rejectEmptyNote ==
  /\ outcome' = "emptyNote"
  /\ alertShown' = FALSE
  /\ UNCHANGED <<notes, noteText, effects, now, commits, owner>>

\* handleAddNote appends the new note and clears the textarea
commitNote ==
  /\ Len(notes) < MaxNotes
  /\ \E t \in {now, now + 1} :
       /\ t <= MaxClock
       /\ now' = t
       /\ notes' = appended(notes, newNote(noteText, now, t))
  /\ noteText' = <<>>
  /\ effects' = dueEffects({"notes"})
  /\ commits' = [commits EXCEPT !["notes"] = @ + 1]
  /\ owner' = Append(owner, selectedIndex)
  /\ outcome' = "added"
  /\ alertShown' = FALSE

\* addNote(groupId, content) of the store, with the pending text: Enter in
\* the textarea of the notes view (handleKeyDown), or the click event of the
\* send button, which is disabled while the text is blank.  The mousedown of
\* a mouse click is an event of its own, handleClickOutside.
handleAddNote ==
  /\ Idle
  /\ Truthy(selectedGroupId)
  /\ IF isBlank(noteText) THEN rejectEmptyNote ELSE commitNote
  /\ UNCHANGED <<phase, storage, groups, selectedGroupId, isModalOpen,
                 isMobile, groupName, selectedColor, mounts, writes,
                 selectedIndex>>

\* onClick of the "+" button of the sidebar: setIsModalOpen(true).  With the
\* modal open, the mousedown of a mouse click has closed it before, as an
\* event of its own (handleClickOutside); the button pressed by the keyboard
\* finds the modal open and leaves it so.
openModal ==
  /\ Idle
  /\ sidebarVisible
  /\ isModalOpen' = TRUE
  /\ NoOutcome
  /\ UNCHANGED <<phase, storage, groups, notes, selectedGroupId, isMobile,
                 groupName, selectedColor, noteText, effects, now, mounts,
                 writes, commits, selectedIndex, owner>>

\* mousedown outside the open modal, also the mousedown that begins a mouse
\* click on an element outside it
handleClickOutside ==
  /\ Idle
  /\ isModalOpen
  /\ isModalOpen' = FALSE
  /\ groupName' = <<>>
  /\ NoOutcome
  /\ UNCHANGED <<phase, storage, groups, notes, selectedGroupId, isMobile,
                 selectedColor, noteText, effects, now, mounts, writes,
                 commits, selectedIndex, owner>>

\* select with the id of the first item in place of the clicked one
selectFirst(i) ==
  /\ Idle
  /\ sidebarVisible
  /\ i \in 1..Len(groups)
  /\ selectedGroupId' = groups[1].id
  /\ selectedIndex' = i
  /\ NoOutcome
  /\ UNCHANGED <<phase, storage, groups, notes, isModalOpen, isMobile,
                 groupName, selectedColor, noteText, effects, now, mounts,
                 writes, commits, owner>>

\* select(groupId): the click event on the i-th item of the group list of
\* the sidebar: setSelectedGroupId(group.id).  The mousedown that begins a
\* mouse click is an event of its own (handleClickOutside).
select(i) ==
  /\ Idle
  /\ sidebarVisible
  /\ i \in 1..Len(groups)
  /\ selectedGroupId' = groups[i].id
  /\ selectedIndex' = i
  /\ NoOutcome
  /\ UNCHANGED <<phase, storage, groups, notes, isModalOpen, isMobile,
                 groupName, selectedColor, noteText, effects, now, mounts,
                 writes, commits, owner>>

\* clear(): the click event of the back button, which the notes view shows
\* when isMobile
clear ==
  /\ Idle
  /\ Truthy(selectedGroupId)
  /\ isMobile
  /\ selectedGroupId' = null
  /\ selectedIndex' = 0
  /\ NoOutcome
  /\ UNCHANGED <<phase, storage, groups, notes, isModalOpen, isMobile,
                 groupName, selectedColor, noteText, effects, now, mounts,
                 writes, commits, owner>>

\* the window is resized to a width below 768 (narrow) or not
handleResize(narrow) ==
  /\ Idle
  /\ isMobile' = narrow
  /\ NoOutcome
  /\ UNCHANGED <<phase, storage, groups, notes, selectedGroupId, isModalOpen,
                 groupName, selectedColor, noteText, effects, now, mounts,
                 writes, commits, selectedIndex, owner>>

\* a millisecond passes
Tick ==
  /\ now < MaxClock
  /\ now' = now + 1
  /\ NoOutcome
  /\ UNCHANGED <<phase, storage, groups, notes, selectedGroupId, isModalOpen,
                 isMobile, groupName, selectedColor, noteText, effects, mounts,
                 writes, commits, selectedIndex, owner>>

\* --------------------------------------------------------------- the view

\* groups.find((g) => g.id === selectedGroupId): the first match, or null
\* standing for undefined
currentGroup ==
  LET found == {i \in 1..Len(groups) : groups[i].id = selectedGroupId}
  IN IF found = {} THEN null
     ELSE groups[CHOOSE i \in found : \A j \in found : i <= j]

\* notes.filter((n) => n.groupId === selectedGroupId)
listNotesFor(groupId) == SelectSeq(notes, LAMBDA n : n.groupId = groupId)

currentNotes == listNotesFor(selectedGroupId)

\* ----------------------------------------------------------- specification

\* the colour circles clicked: the first MaxColors of the palette
PickedColors == {GROUP_COLORS[i] : i \in 1..MaxColors}

Next ==
  \/ Mount
  \/ Reload
  \/ SaveGroupsEffect
  \/ SaveNotesEffect
  \/ \E name \in NameInputs : setGroupName(name)
  \/ \E color \in PickedColors : setSelectedColor(color)
  \/ handleCreateGroup
  \/ \E text \in TextInputs : setNoteText(text)
  \/ handleAddNote
  \/ openModal
  \/ handleClickOutside
  \/ \E i \in 1..MaxGroups : select(i)
  \/ clear
  \/ \E narrow \in BOOLEAN : handleResize(narrow)
  \/ Tick

Spec == Init /\ [][Next]_vars

\* ------------------------------------------ the store under fair scheduling

\* the names and the texts that are typed: two names, a blank and a text
\* that holds a quote
StoreNames == { <<"a">>, <<"a", " ", "b">> }

StoreTexts == { <<" ">>, <<"a", "\"">> }

\* every step of the App, with the inputs above and the default colour
NextStore ==
  \/ Mount
  \/ Reload
  \/ SaveGroupsEffect
  \/ SaveNotesEffect
  \/ \E name \in StoreNames : setGroupName(name)
  \/ \E color \in PickedColors : setSelectedColor(color)
  \/ handleCreateGroup
  \/ \E text \in StoreTexts : setNoteText(text)
  \/ handleAddNote
  \/ openModal
  \/ handleClickOutside
  \/ \E i \in 1..MaxGroups : select(i)
  \/ clear
  \/ \E narrow \in BOOLEAN : handleResize(narrow)
  \/ Tick

\* React runs the passive effects of a commit once the commit is painted:
\* a save effect that is due is not put off for ever.
FairSpec ==
  /\ Init
  /\ [][NextStore]_vars
  /\ WF_vars(SaveGroupsEffect)
  /\ WF_vars(SaveNotesEffect)

\* ------------------------------------------- the startup load of a used store

\* a text cut short: all but its last character
truncated(text) == SubSeq(text, 1, Len(text) - 1)

\* what the "pocketGroups" slot may hold when the page is opened: nothing, the
\* empty string, the saved empty collection, a saved group, a text that is
\* no JSON, and a saved group cut short
StoredGroups ==
  LET saved == stringify(<<newGroup(<<"a">>, GROUP_COLORS[1], 0)>>, GroupKeys)
  IN { null, <<>>, <<"[", "]">>, saved, <<"[">>, truncated(saved) }

\* what the "pocketNotes" slot may hold: likewise, with a saved note
StoredNotes ==
  LET saved ==
        stringify(<<[id |-> toString(0), groupId |-> toString(0),
                     content |-> <<"a">>, date |-> formatDate(0),
                     time |-> formatTime(0)]>>, NoteKeys)
  IN { null, <<>>, <<"[", "]">>, saved, <<"{">>, truncated(saved) }

\* a store left by earlier use, before the page is loaded
InitStored ==
  /\ phase = "unloaded"
  /\ \E g \in StoredGroups, n \in StoredNotes :
       storage = [k \in Slots |-> IF k = "pocketGroups" THEN g ELSE n]
  /\ groups = <<>>
  /\ notes = <<>>
  /\ selectedGroupId = null
  /\ isModalOpen = FALSE
  /\ isMobile = FALSE
  /\ groupName = <<>>
  /\ selectedColor = GROUP_COLORS[1]
  /\ noteText = <<>>
  /\ effects = <<>>
  /\ now = 0
  /\ alertShown = FALSE
  /\ outcome = "none"
  /\ mounts = 0
  /\ writes = [k \in Slots |-> 0]
  /\ commits = [c \in {"groups", "notes"} |-> 0]
  /\ selectedIndex = 0
  /\ owner = <<>>

\* the page is loaded and reloaded, and its save effects run
NextStartup ==
  \/ Mount
  \/ Reload
  \/ SaveGroupsEffect
  \/ SaveNotesEffect

SpecStartup == InitStored /\ [][NextStartup]_vars

\* ------------------------------------------------- the new-group form alone

\* what the user types into the group-name input when the names hold a
\* letter whose upper case has two characters: nothing, the sharp s, the
\* same after a blank, its upper case, and two words that begin with it
FormNames ==
  { <<>>, <<"ß">>, <<" ", "ß">>, <<"S", "S">>, <<"ß", " ", "ß">> }

\* the page and the modal: any name of FormNames is typed, any colour circle
\* of the palette is clicked, and Create is clicked
NextForm ==
  \/ Mount
  \/ Reload
  \/ SaveGroupsEffect
  \/ SaveNotesEffect
  \/ \E name \in FormNames : setGroupName(name)
  \/ \E color \in Range(GROUP_COLORS) : setSelectedColor(color)
  \/ handleCreateGroup
  \/ openModal
  \/ handleClickOutside

SpecForm == Init /\ [][NextForm]_vars

\* ----------------------------------------------------------------- claims

IsPrefix(a, b) == Len(a) <= Len(b) /\ SubSeq(b, 1, Len(a)) = a

\* the text holds nothing but white space
WhitespaceOnly(text) == \A i \in 1..Len(text) : IsSpace(text[i])

\* two names are the same but for letter case and surrounding white space
EqualIgnoringCase(a, b) == toUpperCase(trim(a)) = toUpperCase(trim(b))

\* both slots hold the serialization of the collections in memory
SlotsInSync ==
  /\ storage["pocketGroups"] = stringify(groups, GroupKeys)
  /\ storage["pocketNotes"] = stringify(notes, NoteKeys)

\* the save effects of kind e that are still due
pending(e) == Cardinality({i \in 1..Len(effects) : effects[i] = e})

\* C1: no two groups of the Group collection have names that are equal under
\* case-insensitive comparison after trimming.
C1_UniqueNames ==
  \A i, j \in 1..Len(groups) :
    i # j => ~EqualIgnoringCase(groups[i].name, groups[j].name)

\* a createGroup was just rejected as a duplicate of a group whose name
\* differs from the typed one in letter case or surrounding white space
C1_Witness ==
  /\ outcome = "duplicate"
  /\ \E i \in 1..Len(groups) :
       /\ groups[i].name # groupName
       /\ EqualIgnoringCase(groups[i].name, groupName)

\* C2: a createGroup rejected for a duplicate name changes neither the Group
\* collection, the Note collection, the selection nor a storage slot, and
\* causes no write.
C2_DuplicateNoChange ==
  [][outcome' = "duplicate" =>
       UNCHANGED <<groups, notes, selectedGroupId, storage, effects, writes>>]_vars

\* a duplicate was just rejected while a group with a note is selected
C2_Witness ==
  /\ outcome = "duplicate"
  /\ alertShown
  /\ Len(groups) = 1
  /\ Len(notes) = 1
  /\ selectedGroupId = groups[1].id

\* C3: no two groups share an id and no two notes share an id.
C3_UniqueIds ==
  /\ \A i, j \in 1..Len(groups) : i # j => groups[i].id # groups[j].id
  /\ \A i, j \in 1..Len(notes) : i # j => notes[i].id # notes[j].id

\* C4 as stated: in every state that shows the result of a successful
\* createGroup or addNote, both slots hold the serialization of the
\* collections.
C4_NoWindow == outcome \in {"created", "added"} => SlotsInSync

\* C4 amended: whenever no save effect is pending, both slots hold the
\* serialization of the collections.
C4_SyncWhenIdle == Idle => SlotsInSync

\* both collections are filled and saved
C4_Witness == Idle /\ groups # <<>> /\ notes # <<>>

\* the collection a slot belongs to, and its member names
collectionOf(k) == IF k = "pocketGroups" THEN groups ELSE notes

keysOf(k) == IF k = "pocketGroups" THEN GroupKeys ELSE NoteKeys

\* C5: the text a save effect writes to a slot is read back by the startup
\* load as a collection equal to the one in memory, entry by entry and in
\* order, and saving what was read back gives the same text; the startup
\* load of a written slot followed by the save leaves its content as it was.
C5_RoundTrip ==
  [][/\ \A k \in Slots :
          storage'[k] # storage[k] =>
            /\ loadSlot(storage'[k]) = Parsed(collectionOf(k), Len(storage'[k]) + 1)
            /\ stringify(loadSlot(storage'[k]).val, keysOf(k)) = storage'[k]
     /\ (phase = "unloaded" /\ phase' = "running") =>
          /\ storage["pocketGroups"] # null =>
               stringify(groups', GroupKeys) = storage["pocketGroups"]
          /\ storage["pocketNotes"] # null =>
               stringify(notes', NoteKeys) = storage["pocketNotes"]]_vars

\* the page was reloaded and the load brought back a group and a note whose
\* text holds a quote
C5_Witness ==
  /\ phase = "running"
  /\ mounts = 2
  /\ commits["groups"] > 0
  /\ groups # <<>>
  /\ \E i \in 1..Len(notes) : "\"" \in Range(notes[i].content)

\* C6: the groupId of every note is not null and is the id of a group of the
\* Group collection.
C6_NotesReferenceGroups ==
  \A i \in 1..Len(notes) :
    /\ notes[i].groupId # null
    /\ \E j \in 1..Len(groups) : groups[j].id = notes[i].groupId

\* two notes of two different groups
C6_Witness ==
  /\ Len(notes) = 2
  /\ Len(groups) = 2
  /\ notes[1].groupId # notes[2].groupId

\* C7: an addNote with an empty or whitespace-only text, and a createGroup
\* with an empty or whitespace-only name, change neither collection nor a
\* slot, cause no write and raise no alert.
C7_BlankIsNoOp ==
  [][(\/ WhitespaceOnly(noteText) /\ handleAddNote
      \/ WhitespaceOnly(groupName) /\ handleCreateGroup)
     => /\ UNCHANGED <<groups, notes, storage, effects, writes>>
        /\ ~alertShown']_vars

\* a whitespace-only note was just refused, and a whitespace-only name before
\* it, with one group in the store
C7_Witness ==
  /\ outcome = "emptyNote"
  /\ noteText = <<" ">>
  /\ isModalOpen
  /\ groupName = <<" ">>
  /\ Len(groups) = 1

NotesAddedTo(i) ==
  LET idx == SelectSeq([k \in 1..Len(notes) |-> k], LAMBDA k : owner[k] = i)
  IN [k \in 1..Len(idx) |-> notes[idx[k]]]

C9_NotesOfGroup ==
  phase = "running" =>
    \A i \in 1..Len(groups) : listNotesFor(groups[i].id) = NotesAddedTo(i)

expectedLoad(saved) ==
  IF saved = null THEN <<>>
  ELSE IF parse(saved).ok THEN parse(saved).val
  ELSE <<>>

C11_StartupNeverFails ==
  [][phase = "unloaded" /\ phase' # "unloaded" =>
       /\ phase' = "running"
       /\ groups' = expectedLoad(storage["pocketGroups"])
       /\ notes' = expectedLoad(storage["pocketNotes"])]_vars

\* C11, the part the code keeps: when neither slot holds an unparseable
\* payload, the load ends with the App running and each collection empty
\* for an absent slot and the deserialized payload otherwise.
C11_LoadOfValidSlots ==
  [][(/\ phase = "unloaded" /\ phase' # "unloaded"
      /\ \A k \in Slots : Truthy(storage[k]) => parse(storage[k]).ok) =>
       /\ phase' = "running"
       /\ groups' = expectedLoad(storage["pocketGroups"])
       /\ notes' = expectedLoad(storage["pocketNotes"])]_vars

\* C12 as stated: whenever the App waits for an event, select is enabled
\* for every existing group and clear is enabled, in NoSelection and in
\* GroupSelected alike.
C12_ClearInBothStates ==
  Idle =>
    /\ \A i \in 1..Len(groups) : ENABLED select(i)
    /\ ENABLED clear

\* a click on a group item or on the back button
selectionEvent == (\E i \in 1..MaxGroups : select(i)) \/ clear

\* C12 amended: the selection starts as NoSelection at every page load;
\* select moves to GroupSelected of the clicked group and clear moves to
\* NoSelection, but they are not enabled in both states: while the App waits
\* for an event, every existing group can be selected in NoSelection and, on
\* a wide layout, in GroupSelected, and the selection can be cleared in
\* GroupSelected on a narrow layout; no step of a page life leaves
\* GroupSelected for NoSelection on a wide layout, or for another group on a
\* narrow one.  The window can be resized either way whenever the App waits
\* for an event, which changes the layout alone: so NoSelection and
\* GroupSelected of any existing group stay reachable, by a resize and then
\* clear or select.
C12_SelectionMachine ==
  /\ [](Idle =>
          /\ (selectedGroupId = null \/ ~isMobile) =>
               \A i \in 1..Len(groups) :
                 ENABLED (/\ selectionEvent
                          /\ selectedGroupId' = groups[i].id
                          /\ selectedIndex' = i)
          /\ (selectedGroupId # null /\ isMobile) =>
               ENABLED (selectionEvent /\ selectedGroupId' = null)
          /\ \A narrow \in BOOLEAN :
               ENABLED (/\ handleResize(narrow)
                        /\ isMobile' = narrow
                        /\ UNCHANGED <<phase, effects, groups,
                                       selectedGroupId>>))
  /\ [][/\ (phase # "running" /\ phase' = "running") =>
             selectedGroupId' = null
        /\ \A i \in 1..MaxGroups : select(i) => selectedGroupId' = groups[i].id
        /\ clear => selectedGroupId' = null
        /\ (phase' = phase /\ selectedGroupId # null
                           /\ selectedGroupId' = null) => isMobile
        /\ (phase' = phase /\ selectedGroupId # null
                           /\ selectedGroupId' # null
                           /\ selectedIndex' # selectedIndex) => ~isMobile
        /\ \A narrow \in BOOLEAN :
             handleResize(narrow) =>
               /\ isMobile' = narrow
               /\ UNCHANGED <<phase, effects, groups, selectedGroupId>>]_vars

\* within one page life the second group was selected, a note was added to
\* it, and the selection was cleared
C12_Witness ==
  /\ Idle
  /\ mounts = 1
  /\ selectedGroupId = null
  /\ Len(groups) = 2
  /\ notes # <<>>
  /\ owner[1] = 2

\* C13: the content of every note of the Note collection is non-empty after
\* trimming: it is neither empty nor whitespace only.
C13_ContentNotBlank ==
  \A i \in 1..Len(notes) :
    /\ trim(notes[i].content) # <<>>
    /\ ~WhitespaceOnly(notes[i].content)

\* a blank text was just refused while the store holds a note whose content
\* begins with a blank, kept as typed
C13_Witness ==
  /\ outcome = "emptyNote"
  /\ noteText = <<" ">>
  /\ Len(notes) = 1
  /\ notes[1].content # trim(notes[1].content)

\* C14: the initials of every group are the function of its stored name the
\* data model describes: the upper-cased first letter of a name of one word,
\* the upper-cased first letters of the first two words otherwise; hence
\* they have one or two characters.
initialsOf(name) ==
  LET words == split(trim(name))
  IN IF Len(words) = 1 THEN toUpperCase(<<words[1][1]>>)
     ELSE toUpperCase(<<words[1][1], words[2][1]>>)

C14_InitialsOfName ==
  \A i \in 1..Len(groups) :
    /\ groups[i].initials = initialsOf(groups[i].name)
    /\ Len(groups[i].initials) \in {1, 2}

\* C14, the part the code keeps: the initials are the upper-cased first
\* letters of the first one or two words of the stored name.
C14_InitialsDerived ==
  \A i \in 1..Len(groups) : groups[i].initials = initialsOf(groups[i].name)

\* C15: while a group is selected, currentGroup is present and is the one
\* group whose id is the selected id, the group whose item was clicked; while
\* none is selected, currentGroup is absent and currentNotes is empty.
groupsWithId(id) == {i \in 1..Len(groups) : groups[i].id = id}

C15_ViewProjection ==
  phase = "running" =>
    /\ selectedGroupId # null =>
         /\ Cardinality(groupsWithId(selectedGroupId)) = 1
         /\ currentGroup = groups[selectedIndex]
    /\ selectedGroupId = null =>
         /\ groupsWithId(selectedGroupId) = {}
         /\ currentGroup = null
         /\ currentNotes = <<>>

\* C15, apart from the shared ids of C3: while no two groups share an id the
\* view is as C15 says.
C15_ViewOfUniqueIds ==
  (\A i, j \in 1..Len(groups) : i # j => groups[i].id # groups[j].id)
    => C15_ViewProjection

\* C16: createGroup changes neither the Note collection nor the selection
\* and makes no write of "pocketNotes" due; addNote changes neither the Group
\* collection nor the selection and makes no write of "pocketGroups" due;
\* neither handler writes a slot itself; the save effect of one collection
\* leaves the slot of the other, both collections and the selection as they
\* are; select and clear change no collection and no slot and make no write
\* due.
C16_Frames ==
  [][/\ handleCreateGroup =>
          /\ UNCHANGED <<notes, selectedGroupId, storage, writes>>
          /\ pending("notes")' = 0
     /\ handleAddNote =>
          /\ UNCHANGED <<groups, selectedGroupId, storage, writes>>
          /\ pending("groups")' = 0
     /\ SaveGroupsEffect =>
          /\ UNCHANGED <<groups, notes, selectedGroupId>>
          /\ storage'["pocketNotes"] = storage["pocketNotes"]
          /\ writes'["pocketNotes"] = writes["pocketNotes"]
     /\ SaveNotesEffect =>
          /\ UNCHANGED <<groups, notes, selectedGroupId>>
          /\ storage'["pocketGroups"] = storage["pocketGroups"]
          /\ writes'["pocketGroups"] = writes["pocketGroups"]
     /\ ((\E i \in 1..MaxGroups : select(i)) \/ clear) =>
          UNCHANGED <<groups, notes, storage, writes, effects>>]_vars

\* a second group was just created while the first is selected and has a
\* note, and the "pocketNotes" slot holds that note
C16_Witness ==
  /\ outcome = "created"
  /\ Len(groups) = 2
  /\ selectedGroupId = groups[1].id
  /\ Len(notes) = 1
  /\ storage["pocketNotes"] = stringify(notes, NoteKeys)
  /\ effects = <<"groups">>

C18_Colors ==
  /\ [](/\ \A i \in 1..Len(groups) : groups[i].color \in Range(GROUP_COLORS)
        /\ selectedColor \in Range(GROUP_COLORS))
  /\ [][handleCreateGroup =>
          /\ outcome' = "created" =>
               /\ groups'[Len(groups')].color = selectedColor
               /\ selectedColor' = GROUP_COLORS[1]
          /\ outcome' # "created" =>
               /\ outcome' \in {"emptyName", "duplicate"}
               /\ UNCHANGED <<selectedColor, groupName, groups>>]_vars

\* a duplicate name was just rejected with the last colour of the palette
\* pending, in a store whose groups have the third and the fifth colour
C18_Witness ==
  /\ outcome = "duplicate"
  /\ selectedColor = GROUP_COLORS[6]
  /\ groupName # <<>>
  /\ Len(groups) = 2
  /\ groups[1].color = GROUP_COLORS[3]
  /\ groups[2].color = GROUP_COLORS[5]

====
